---------------------------- MODULE Spec2Model ----------------------------
(***************************************************************************)
(* Model of graphql_query_derive (src/graphql_query_derive/src/lib.rs):    *)
(* the derive entry point, attribute extraction, schema path resolution,   *)
(* file reading and the per-operation generation pipeline impl_gql_query.  *)
(* Strings that are taken apart by the code (paths) are sequences of       *)
(* tokens: "/" is the separator, "." the dot, every other token a run of   *)
(* ordinary characters.                                                    *)
(***************************************************************************)
EXTENDS Integers, Sequences, FiniteSets, TLC

VARIABLES
    config,      \* what read_graphql_config() yields in this project
    input,       \* input[i]: the syn::DeriveInput of derive invocation i
    pc,          \* pc[i]: position of invocation i inside impl_gql_query
    locals,      \* locals[i]: the let-bindings of impl_gql_query
    result,      \* result[i]: what impl_gql_query returned (or its panic)
    trace,       \* trace[i]: the steps invocation i has executed, in order
    payload,     \* payload[i]: last GraphQLQueryBody built by build_query
    library,     \* fragment library of the document being inlined
    stack,       \* call stack of the depth-first fragment inlining
    visiting,    \* the visiting set of the current top-level resolution
    inlined,     \* outcome of the top-level inline call
    spread       \* name of the spread the top-level call inlines

vars == <<config, input, pc, locals, result, trace, payload,
          library, stack, visiting, inlined, spread>>

pipelineVars == <<config, input, pc, locals, result, trace, payload>>
inlineVars == <<library, stack, visiting, inlined, spread>>

-----------------------------------------------------------------------------
(* Bounds of the model *)

\* number of derive invocations expanded in one batch (one crate build)
NumOps == 2
\* Variables values handed to build_query are 0..MaxVariables
MaxVariables == 1
\* number of named fragments in a document
NumFragments == 3
\* largest number of spreads inside one fragment
MaxSpreads == 2

-----------------------------------------------------------------------------
(* Result<T, failure::Error>, plus the panic a call can end in *)

Unset == "unset"
NoError == [type |-> "none", msg |-> "none", about |-> <<>>]

Ok(v) == [tag |-> "Ok", val |-> v, err |-> NoError]
Err(e) == [tag |-> "Err", val |-> Unset, err |-> e]
Panic(m) == [tag |-> "Panic", val |-> Unset,
             err |-> [type |-> "panic", msg |-> m, about |-> <<>>]]

Error(type, msg, about) == [type |-> type, msg |-> msg, about |-> about]

-----------------------------------------------------------------------------
(* Minimum of a non-empty set of integers: iter().find returns the first *)
Min(S) == CHOOSE x \in S : \A y \in S : x <= y
Max(S) == CHOOSE x \in S : \A y \in S : x >= y


-----------------------------------------------------------------------------
(* Paths and the file system the macro runs against *)

\* env::var("CARGO_MANIFEST_DIR"): cargo always sets it to the crate root
CARGO_MANIFEST_DIR == <<"/", "proj">>

Concat(a, b) == a \o b

\* format!("{}/{}", cargo_manifest_dir, query_path)
FormatPath(dir, path) == Concat(Concat(dir, <<"/">>), path)

IsAbsolute(path) == Len(path) > 0 /\ path[1] = "/"

\* std::path::Path::new(dir).join(path): an absolute argument replaces dir
PathJoin(dir, path) ==
    IF IsAbsolute(path) THEN path
    ELSE IF Len(dir) > 0 /\ dir[Len(dir)] = "/" THEN Concat(dir, path)
    ELSE Concat(Concat(dir, <<"/">>), path)

\* The file name is what follows the last separator
FileName(path) ==
    LET seps == {k \in 1..Len(path) : path[k] = "/"}
        from == IF seps = {} THEN 1 ELSE Max(seps) + 1
    IN  SubSeq(path, from, Len(path))

\* Path::extension().and_then(to_str).unwrap_or("INVALID"): the part of the
\* file name after its last dot; none when the name has no dot, or only a
\* leading one
Extension(path) ==
    LET name == FileName(path)
        dots == {k \in 1..Len(name) : name[k] = "."}
    IN  IF dots = {} \/ Max(dots) = 1 \/ name = <<".", ".">> THEN "INVALID"
        ELSE IF Max(dots) = Len(name) THEN ""
        ELSE name[Len(name)]

\* The operating system ignores repeated separators when it opens a path
RECURSIVE Canonical(_)
Canonical(path) ==
    IF Len(path) < 2 THEN path
    ELSE IF path[1] = "/" /\ path[2] = "/" THEN Canonical(Tail(path))
    ELSE <<path[1]>> \o Canonical(Tail(path))

IsPrefix(a, b) == Len(a) <= Len(b) /\ SubSeq(b, 1, Len(a)) = a

\* The file lies below the directory dir
UnderDir(dir, path) ==
    LET c == Canonical(path)
    IN  IsPrefix(Concat(dir, <<"/">>), c) /\ Len(c) > Len(dir) + 1

\* Relative paths used by the inputs
QueryPathOk == <<"q", ".", "graphql">>
QueryPathAbs == <<"/", "abs", "/", "q", ".", "graphql">>
QueryPathMissing == <<"missing", ".", "graphql">>
QueryPathBinary == <<"binary", ".", "graphql">>
QueryPathBad == <<"bad", ".", "graphql">>
QueryPathUnknown == <<"unknown", ".", "graphql">>
QueryPathCycle == <<"cycle", ".", "graphql">>
QueryPathAgeCycle == <<"agecycle", ".", "graphql">>
SchemaPathSdl == <<"schema", ".", "graphql">>
SchemaPathGql == <<"schema", ".", "gql">>
SchemaPathJson == <<"schema", ".", "json">>
SchemaPathTxt == <<"schema", ".", "txt">>
SchemaPathNoExt == <<"schema">>
SchemaPathAbs == <<"/", "abs", "/", "schema", ".", "graphql">>
SchemaPathMissing == <<"nofile", ".", "graphql">>
SchemaPathBadJson == <<"bad", ".", "json">>
SchemaPathBadSdl == <<"bad", ".", "gql">>
SchemaPathNotUtf8 == <<"sch\\xFF", ".", "json">>

InProject(rel) == Concat(<<"/", "proj", "/">>, rel)

\* Content of the file at a canonical absolute path, "ENOENT" when there is
\* none, "EINVAL" when its bytes are not UTF-8
FileContent(path) ==
    CASE path = InProject(QueryPathOk) -> "query hero"
      [] path = InProject(<<"abs", "/", "q", ".", "graphql">>) -> "query hero name"
      [] path = InProject(QueryPathBinary) -> "EINVAL"
      [] path = InProject(QueryPathBad) -> "query {{"
      [] path = InProject(QueryPathUnknown) -> "query hero age"
      [] path = InProject(QueryPathCycle) -> "query hero cycle"
      [] path = InProject(QueryPathAgeCycle) -> "query hero age cycle"
      [] path = InProject(SchemaPathSdl) -> "sdl starwars"
      [] path = InProject(SchemaPathGql) -> "sdl starwars"
      [] path = InProject(SchemaPathJson) -> "json starwars"
      [] path = InProject(SchemaPathTxt) -> "sdl starwars"
      [] path = InProject(SchemaPathNoExt) -> "sdl starwars"
      [] path = SchemaPathAbs -> "sdl other"
      [] path = InProject(SchemaPathBadJson) -> "json {{"
      [] path = InProject(SchemaPathBadSdl) -> "sdl {{"
      [] OTHER -> "ENOENT"

\* File::open(&path) followed by read_to_string
read_file(path) ==
    LET content == FileContent(Canonical(path))
    IN  IF content = "ENOENT"
        THEN Err(Error("IOError", "Could not find file with path", path))
        ELSE IF content = "EINVAL"
        THEN Err(Error("IOError", "stream did not contain valid UTF-8", <<>>))
        ELSE Ok(content)

-----------------------------------------------------------------------------
(* The derive input: syn::DeriveInput with its attribute list *)

\* A literal of a name-value item: syn::Lit::Str or another literal kind
LitStr(v) == [kind |-> "Str", value |-> v]
LitInt(v) == [kind |-> "Int", value |-> v]

\* syn::NestedMeta::Meta(syn::Meta::NameValue(..)): ident = lit
NameValue(ident, lit) == [kind |-> "NameValue", ident |-> ident, lit |-> lit]

\* An attribute #[path(...)]; meta is what interpret_meta() yields for it:
\* kind "List" (nested items), "Word" (no arguments) or "None" (the tokens
\* are no meta item, interpret_meta() returns None)
MetaList(path, nested) == [path |-> path, meta |-> "List", nested |-> nested]
MetaWord(path) == [path |-> path, meta |-> "Word", nested |-> <<>>]
MetaNone(path) == [path |-> path, meta |-> "None", nested |-> <<>>]

DeriveInput(ident, attrs) == [ident |-> ident, attrs |-> attrs]

QP(v) == NameValue("query_path", LitStr(v))
SP(v) == NameValue("schema_path", LitStr(v))

\* One graphql attribute carrying both paths
Both(ident, q, s) == DeriveInput(ident, <<MetaList("graphql", <<QP(q), SP(s)>>)>>)

\* The derive inputs the model expands
DeriveInputs ==
    { Both("HeroQuery", QueryPathOk, SchemaPathSdl),
      Both("HeroQuery", QueryPathOk, SchemaPathGql),
      DeriveInput("HeroQuery",
          <<MetaWord("doc"), MetaList("graphql", <<SP(SchemaPathJson), QP(QueryPathOk)>>)>>),
      DeriveInput("HeroQuery", <<MetaList("graphql", <<QP(QueryPathOk)>>)>>),
      DeriveInput("HeroQuery",
          <<MetaList("graphql", <<QP(QueryPathOk)>>),
            MetaList("graphql", <<SP(SchemaPathSdl)>>)>>),
      DeriveInput("HeroQuery",
          <<MetaList("graphql",
              <<QP(QueryPathOk), NameValue("schema_path", LitInt(<<"3">>))>>)>>),
      DeriveInput("HeroQuery", <<MetaWord("doc")>>),
      DeriveInput("HeroQuery", <<MetaWord("graphql")>>),
      DeriveInput("HeroQuery", <<MetaNone("graphql")>>),
      DeriveInput("HeroQuery", <<MetaList("graphql", <<SP(SchemaPathSdl)>>)>>),
      Both("HeroQuery", QueryPathOk, SchemaPathTxt),
      Both("HeroQuery", QueryPathOk, SchemaPathNoExt),
      Both("HeroQuery", QueryPathOk, SchemaPathAbs),
      Both("HeroQuery", QueryPathOk, SchemaPathMissing),
      Both("HeroQuery", QueryPathOk, SchemaPathBadJson),
      Both("HeroQuery", QueryPathOk, SchemaPathBadSdl),
      Both("NameQuery", QueryPathAbs, SchemaPathSdl),
      Both("HeroQuery", QueryPathMissing, SchemaPathSdl),
      Both("HeroQuery", QueryPathBinary, SchemaPathSdl),
      Both("HeroQuery", QueryPathBad, SchemaPathSdl),
      Both("AgeQuery", QueryPathUnknown, SchemaPathSdl),
      Both("CycleQuery", QueryPathCycle, SchemaPathJson),
      Both("CycleQuery", QueryPathAgeCycle, SchemaPathSdl) }

\* The inputs expanded together in one batch
BatchInputs ==
    { Both("HeroQuery", QueryPathOk, SchemaPathSdl),
      Both("NameQuery", QueryPathAbs, SchemaPathJson),
      DeriveInput("HeroQuery", <<MetaList("graphql", <<QP(QueryPathOk)>>)>>),
      DeriveInput("HeroQuery", <<MetaNone("graphql")>>),
      Both("HeroQuery", QueryPathOk, SchemaPathTxt),
      Both("AgeQuery", QueryPathUnknown, SchemaPathSdl) }

\* extract_attr(ast, attr): the first attribute whose path is graphql, and
\* in it the first name-value item named attr whose literal is a string
extract_attr(ast, attr) ==
    LET attributes == ast.attrs
        found == {k \in 1..Len(attributes) : attributes[k].path = "graphql"}
    IN  IF found = {}
        THEN Err(Error("AttrError", "The graphql attribute is missing", <<>>))
        ELSE LET attribute == attributes[Min(found)]
                 items == attribute.nested
                 hits == {k \in 1..Len(items) :
                            /\ items[k].kind = "NameValue"
                            /\ items[k].ident = attr
                            /\ items[k].lit.kind = "Str"}
             IN  IF attribute.meta = "None"
                 THEN Panic("Attribute is well formatted")
                 ELSE IF attribute.meta = "List" /\ hits # {}
                 THEN Ok(items[Min(hits)].lit.value)
                 ELSE Err(Error("AttrError", "attribute not found", <<>>))

-----------------------------------------------------------------------------
(* The project-level .graphqlconfig *)

\* What read_graphql_config() yields: an error, a configuration without
\* schemaPath, or one whose root.schema_path is the given path
ConfigUnreadable == Err(Error("IOError", "no .graphqlconfig", <<>>))
ConfigWithout == Ok([schema_path |-> <<>>, present |-> FALSE])
ConfigWith(path) == Ok([schema_path |-> path, present |-> TRUE])

Configs ==
    { ConfigUnreadable, ConfigWithout, ConfigWith(SchemaPathJson),
      ConfigWith(SchemaPathAbs), ConfigWith(SchemaPathNotUtf8) }

BatchConfigs == { ConfigUnreadable, ConfigWith(SchemaPathJson) }

\* Path::to_string_lossy().into_owned(): bytes that are not UTF-8 become
\* U+FFFD
RECURSIVE to_string_lossy(_)
to_string_lossy(path) ==
    IF path = <<>> THEN <<>>
    ELSE <<IF Head(path) = "sch\\xFF" THEN "sch\\uFFFD" ELSE Head(path)>>
             \o to_string_lossy(Tail(path))

\* The closure of or_else in find_schema_path: the config file's schemaPath
SchemaPathFromConfig(cfg) ==
    IF cfg.tag # "Ok" THEN cfg
    ELSE IF ~cfg.val.present
    THEN Err(Error("ConfigError", "Missing schemaPath in .graphqlconfig", <<>>))
    ELSE Ok(to_string_lossy(cfg.val.schema_path))

\* Faulty variant of find_schema_path: the underlying error is returned as
\* it is, without the map_err that replaces it
find_schema_path_unmapped(ast, cfg) ==
    LET attr == extract_attr(ast, "schema_path")
    IN  IF attr.tag = "Err" THEN SchemaPathFromConfig(cfg) ELSE attr

\* find_schema_path(input) under configuration cfg
find_schema_path(ast, cfg) ==
    LET attr == extract_attr(ast, "schema_path")
        found == IF attr.tag = "Err" THEN SchemaPathFromConfig(cfg) ELSE attr
    IN  IF found.tag = "Err"
        THEN Err(Error("ConfigError",
                       "Could not find a schema for the query either from the attribute on the query or in a .graphqlconfig file at the project root.",
                       <<ast.ident>>))
        ELSE found

-----------------------------------------------------------------------------
(* Query documents *)

Field(name, sel) == [kind |-> "Field", name |-> name, on |-> "", sel |-> sel]
FragmentSpread(name) == [kind |-> "FragmentSpread", name |-> name, on |-> "", sel |-> <<>>]
InlineFragment(on, sel) == [kind |-> "InlineFragment", name |-> "", on |-> on, sel |-> sel]

Fragment(on, sel) == [on |-> on, sel |-> sel]
NoFragments == [n \in {} |-> Fragment("", <<>>)]

Document(sel, fragments) == [selectionSet |-> sel, fragments |-> fragments]

\* graphql_parser::parse_query on the query texts of the file system
parse_query(text) ==
    CASE text = "query hero" ->
            Ok(Document(<<Field("hero",
                    <<Field("name", <<>>), Field("__typename", <<>>),
                      InlineFragment("Human", <<Field("homePlanet", <<>>)>>)>>)>>,
                NoFragments))
      [] text = "query hero name" ->
            Ok(Document(<<Field("hero", <<Field("name", <<>>)>>)>>, NoFragments))
      [] text = "query hero age" ->
            Ok(Document(<<Field("hero", <<Field("name", <<>>), Field("age", <<>>)>>)>>,
                NoFragments))
      [] text = "query hero cycle" ->
            Ok(Document(<<Field("hero", <<FragmentSpread("A")>>)>>,
                ("A" :> Fragment("Character", <<Field("name", <<>>), FragmentSpread("B")>>))
                @@ ("B" :> Fragment("Character", <<FragmentSpread("A")>>))))
      [] text = "query hero age cycle" ->
            Ok(Document(<<Field("hero", <<Field("age", <<>>), FragmentSpread("A")>>)>>,
                ("A" :> Fragment("Character", <<FragmentSpread("A")>>))))
      [] OTHER -> Err(Error("ParseError", "query parse error", <<>>))

-----------------------------------------------------------------------------
(* Schema Model *)

SchemaType(kind, fields, implements, possibleTypes) ==
    [kind |-> kind, fields |-> fields, implements |-> implements,
     possibleTypes |-> possibleTypes]

NoFields == [n \in {} |-> ""]
Scalar == SchemaType("Scalar", NoFields, {}, {})

StarWars ==
    ("Query" :> SchemaType("Object", ("hero" :> "Character"), {}, {}))
    @@ ("Character" :> SchemaType("Interface", ("name" :> "String"), {}, {"Human", "Droid"}))
    @@ ("Human" :> SchemaType("Object",
            ("name" :> "String") @@ ("homePlanet" :> "String"), {"Character"}, {}))
    @@ ("Droid" :> SchemaType("Object",
            ("name" :> "String") @@ ("primaryFunction" :> "String"), {"Character"}, {}))
    @@ ("String" :> Scalar)

OtherSchema ==
    ("Query" :> SchemaType("Object", ("human" :> "Human"), {}, {}))
    @@ ("Human" :> SchemaType("Object", ("name" :> "String"), {}, {}))
    @@ ("String" :> Scalar)

\* graphql_parser::schema::parse_schema on the schema texts
parse_schema(text) ==
    CASE text = "sdl starwars" -> Ok("ast starwars")
      [] text = "sdl other" -> Ok("ast other")
      [] OTHER -> Err(Error("ParseError", "schema parse error", <<>>))

\* serde_json::from_str::<FullResponse<IntrospectionResponse>>
from_str(text) ==
    CASE text = "json starwars" -> Ok("introspection starwars")
      [] OTHER -> Err(Error("ParseError", "expected value", <<>>))

\* schema::Schema::from, for an SDL document and for an introspection response
SchemaFrom(doc) ==
    CASE doc = "ast other" -> OtherSchema
      [] OTHER -> StarWars

Composite == {"Object", "Interface", "Union"}

-----------------------------------------------------------------------------
(* Fragment Resolver and Selection Resolver *)

\* A spread's onType fits the context: the context itself, a supertype it
\* implements, or one of its possible types
TypeConditionFits(schema, onType, contextType) ==
    /\ onType \in DOMAIN schema
    /\ \/ onType = contextType
       \/ onType \in schema[contextType].implements
       \/ onType \in schema[contextType].possibleTypes

RECURSIVE inline(_, _, _, _, _)
RECURSIVE InlineAll(_, _, _, _, _)

\* inline(spreadName, contextType, visiting): the fragment's selections with
\* every nested spread inlined, depth first
inline(schema, lib, spreadName, contextType, visitingSet) ==
    IF spreadName \notin DOMAIN lib
    THEN Err(Error("FragmentError", "Undefined", <<spreadName>>))
    ELSE IF spreadName \in visitingSet
    THEN Err(Error("FragmentError", "CycleDetected", <<spreadName>>))
    ELSE IF ~TypeConditionFits(schema, lib[spreadName].on, contextType)
    THEN Err(Error("FragmentError", "TypeConditionMismatch", <<spreadName>>))
    ELSE LET body == InlineAll(schema, lib, lib[spreadName].sel, lib[spreadName].on,
                               visitingSet \cup {spreadName})
         IN  IF body.tag = "Err" THEN body
             ELSE Ok(<<InlineFragment(lib[spreadName].on, body.val)>>)

InlineAll(schema, lib, sels, contextType, visitingSet) ==
    IF sels = <<>> THEN Ok(<<>>)
    ELSE LET s == Head(sels)
             known == s.kind = "Field" /\ s.name \in DOMAIN schema[contextType].fields
             first ==
                CASE s.kind = "FragmentSpread" ->
                        inline(schema, lib, s.name, contextType, visitingSet)
                  [] s.kind = "InlineFragment" /\ s.on \in DOMAIN schema ->
                        LET sub == InlineAll(schema, lib, s.sel, s.on, visitingSet)
                        IN  IF sub.tag = "Err" THEN sub
                            ELSE Ok(<<InlineFragment(s.on, sub.val)>>)
                  [] known ->
                        LET sub == InlineAll(schema, lib, s.sel,
                                       schema[contextType].fields[s.name], visitingSet)
                        IN  IF sub.tag = "Err" THEN sub
                            ELSE Ok(<<Field(s.name, sub.val)>>)
                  [] OTHER -> Ok(<<s>>)
         IN  IF first.tag = "Err" THEN first
             ELSE LET rest == InlineAll(schema, lib, Tail(sels), contextType, visitingSet)
                  IN  IF rest.tag = "Err" THEN rest ELSE Ok(first.val \o rest.val)

\* One entry of an output node: the response key, the type it was selected
\* on, the field's type and the nested output
Entry(key, on, type, sub) == [key |-> key, on |-> on, type |-> type, sub |-> sub]

RECURSIVE resolve(_, _, _)

\* resolve(type, selections): every field must exist on the type it is
\* selected against, or be __typename
resolve(schema, type, sels) ==
    IF sels = <<>> THEN Ok(<<>>)
    ELSE LET s == Head(sels)
             first ==
                CASE s.kind = "Field" /\ s.name = "__typename" ->
                        Ok(<<Entry(s.name, type, "String", <<>>)>>)
                  [] s.kind = "Field" /\ s.name \notin DOMAIN schema[type].fields ->
                        Err(Error("SelectionError", "UnknownField", <<type, s.name>>))
                  [] s.kind = "Field" ->
                        LET ft == schema[type].fields[s.name]
                            sub == IF schema[ft].kind \in Composite
                                   THEN resolve(schema, ft, s.sel) ELSE Ok(<<>>)
                        IN  IF sub.tag = "Err" THEN sub
                            ELSE Ok(<<Entry(s.name, type, ft, sub.val)>>)
                  [] s.kind = "InlineFragment" ->
                        IF ~TypeConditionFits(schema, s.on, type)
                        THEN Err(Error("SelectionError", "InvalidFragmentTarget", <<s.on>>))
                        ELSE resolve(schema, s.on, s.sel)
                  [] OTHER -> Err(Error("FragmentError", "Undefined", <<s.name>>))
         IN  IF first.tag = "Err" THEN first
             ELSE LET rest == resolve(schema, type, Tail(sels))
                  IN  IF rest.tag = "Err" THEN rest ELSE Ok(first.val \o rest.val)

\* schema.response_for_query(query): inline the fragments of the operation,
\* then resolve its selection set against the query root type
response_for_query(schema, query) ==
    LET flat == InlineAll(schema, query.fragments, query.selectionSet, "Query", {})
    IN  IF flat.tag = "Err" THEN flat ELSE resolve(schema, "Query", flat.val)

-----------------------------------------------------------------------------
(* Generated code *)

\* heck's to_snake_case on the struct names of the inputs
to_snake_case(ident) ==
    CASE ident = "HeroQuery" -> "hero_query"
      [] ident = "NameQuery" -> "name_query"
      [] ident = "AgeQuery" -> "age_query"
      [] ident = "CycleQuery" -> "cycle_query"
      [] OTHER -> ident

\* The quote! block: the module with the QUERY constant and the schema
\* output, and the GraphQLQuery impl that refers to the module's items
quote(module_name, struct_name, query_string, schema_output) ==
    [module |-> [name |-> module_name, QUERY |-> query_string,
                 items |-> schema_output],
     impl |-> [for |-> struct_name,
               Variables |-> <<module_name, "Variables">>,
               ResponseData |-> <<module_name, "ResponseData">>,
               query |-> <<module_name, "QUERY">>]]

\* The item a path of the generated code refers to
Item(tokens, path) ==
    IF path[1] = tokens.module.name /\ path[2] = "QUERY"
    THEN tokens.module.QUERY ELSE Unset

\* The generated build_query(variables)
build_query(tokens, variables) ==
    [variables |-> variables, query |-> Item(tokens, tokens.impl.query)]

-----------------------------------------------------------------------------
(* impl_gql_query as one function: each ? returns the first error *)

StepOrder ==
    <<"extract_query_path", "find_schema_path", "read_query", "parse_query",
      "read_schema", "parse_schema", "response_for_query", "emit">>

Ended(step, res) == [step |-> step, res |-> res]

\* The match on the schema path's extension
BuildSchema(extension, schema_string) ==
    IF extension \in {"graphql", "gql"}
    THEN LET s == parse_schema(schema_string)
         IN  IF s.tag = "Ok" THEN Ok(SchemaFrom(s.val)) ELSE s
    ELSE IF extension = "json"
    THEN LET parsed == from_str(schema_string)
         IN  IF parsed.tag = "Ok" THEN Ok(SchemaFrom(parsed.val)) ELSE parsed
    ELSE Panic("Unsupported extension for the GraphQL schema")

impl_gql_query(ast, cfg) ==
    LET module_name == to_snake_case(ast.ident)
        query_path0 == extract_attr(ast, "query_path")
        schema_path0 == find_schema_path(ast, cfg)
        query_path == FormatPath(CARGO_MANIFEST_DIR, query_path0.val)
        query_string == read_file(query_path)
        query == parse_query(query_string.val)
        schema_path == PathJoin(CARGO_MANIFEST_DIR, schema_path0.val)
        schema_string == read_file(schema_path)
        schema == BuildSchema(Extension(schema_path), schema_string.val)
        schema_output == response_for_query(schema.val, query.val)
    IN  IF query_path0.tag # "Ok" THEN Ended("extract_query_path", query_path0)
        ELSE IF schema_path0.tag # "Ok" THEN Ended("find_schema_path", schema_path0)
        ELSE IF query_string.tag # "Ok" THEN Ended("read_query", query_string)
        ELSE IF query.tag # "Ok" THEN Ended("parse_query", query)
        ELSE IF schema_string.tag # "Ok" THEN Ended("read_schema", schema_string)
        ELSE IF schema.tag # "Ok" THEN Ended("parse_schema", schema)
        ELSE IF schema_output.tag # "Ok" THEN Ended("response_for_query", schema_output)
        ELSE Ended("emit",
                   Ok(quote(module_name, ast.ident, query_string.val, schema_output.val)))

-----------------------------------------------------------------------------
(* The derive invocations, one step of impl_gql_query at a time *)

Ops == DOMAIN input

\* The locals before they are bound
NoLocals ==
    [module_name |-> Unset, query_path |-> <<>>, schema_path |-> <<>>,
     query_string |-> Unset, query |-> Document(<<>>, NoFragments),
     schema_string |-> Unset, schema |-> [n \in {} |-> Scalar],
     schema_output |-> <<>>, opened |-> <<>>]

NoResult == [tag |-> "None", val |-> Unset, err |-> NoError]

\* No GraphQLQueryBody built yet
NoPayload == [variables |-> -1, query |-> Unset]

\* locals[i].opened lists the paths handed to File::open so far

\* A step that ends the call: ? returns the error to graphql_query_derive,
\* a panic unwinds through it
Fail(i, step, l, r) ==
    /\ locals' = [locals EXCEPT ![i] = l]
    /\ result' = [result EXCEPT ![i] = r]
    /\ pc' = [pc EXCEPT ![i] = IF r.tag = "Panic" THEN "aborted" ELSE "returned"]
    /\ trace' = [trace EXCEPT ![i] = Append(@, step)]
    /\ UNCHANGED payload

\* A step that succeeds and binds a local
Bind(i, step, l, next) ==
    /\ locals' = [locals EXCEPT ![i] = l]
    /\ pc' = [pc EXCEPT ![i] = next]
    /\ trace' = [trace EXCEPT ![i] = Append(@, step)]
    /\ UNCHANGED <<result, payload>>

\* Faulty variant of ExtractQueryPath: the module name is made unique with
\* the number of invocations that started before this one
ExtractQueryPathCounting(i) ==
    /\ pc[i] = "start"
    /\ LET r == extract_attr(input[i], "query_path")
           started == Cardinality({j \in Ops : pc[j] # "start"})
       IN  IF r.tag = "Ok"
           THEN Bind(i, "extract_query_path",
                     [locals[i] EXCEPT !.module_name = ToString(started),
                                       !.query_path = r.val],
                     "find_schema_path")
           ELSE Fail(i, "extract_query_path", locals[i], r)
    /\ UNCHANGED <<config, input, inlineVars>>

ExtractQueryPath(i) ==
    /\ pc[i] = "start"
    /\ LET r == extract_attr(input[i], "query_path")
       IN  IF r.tag = "Ok"
           THEN Bind(i, "extract_query_path",
                     [locals[i] EXCEPT !.module_name = to_snake_case(input[i].ident),
                                       !.query_path = r.val],
                     "find_schema_path")
           ELSE Fail(i, "extract_query_path", locals[i], r)
    /\ UNCHANGED <<config, input, inlineVars>>

FindSchemaPath(i) ==
    /\ pc[i] = "find_schema_path"
    /\ LET r == find_schema_path(input[i], config)
       IN  IF r.tag = "Ok"
           THEN Bind(i, "find_schema_path",
                     [locals[i] EXCEPT !.schema_path = r.val], "read_query")
           ELSE Fail(i, "find_schema_path", locals[i], r)
    /\ UNCHANGED <<config, input, inlineVars>>

\* Faulty variant of ReadQueryFile: the error of read_file is recorded but
\* the function goes on to parse the query
ReadQueryFileNoStop(i) ==
    /\ pc[i] = "read_query"
    /\ LET query_path == FormatPath(CARGO_MANIFEST_DIR, locals[i].query_path)
           r == read_file(query_path)
       IN  /\ locals' = [locals EXCEPT ![i] =
                            [@ EXCEPT !.query_path = query_path,
                                      !.query_string = r.val,
                                      !.opened = Append(@, query_path)]]
           /\ result' = [result EXCEPT ![i] = IF r.tag = "Ok" THEN @ ELSE r]
    /\ pc' = [pc EXCEPT ![i] = "parse_query"]
    /\ trace' = [trace EXCEPT ![i] = Append(@, "read_query")]
    /\ UNCHANGED <<payload, config, input, inlineVars>>

ReadQueryFile(i) ==
    /\ pc[i] = "read_query"
    /\ LET query_path == FormatPath(CARGO_MANIFEST_DIR, locals[i].query_path)
           r == read_file(query_path)
       IN  IF r.tag = "Ok"
           THEN Bind(i, "read_query",
                     [locals[i] EXCEPT !.query_path = query_path,
                                       !.query_string = r.val,
                                       !.opened = Append(@, query_path)],
                     "parse_query")
           ELSE Fail(i, "read_query",
                     [locals[i] EXCEPT !.opened = Append(@, query_path)], r)
    /\ UNCHANGED <<config, input, inlineVars>>

ParseQuery(i) ==
    /\ pc[i] = "parse_query"
    /\ LET r == parse_query(locals[i].query_string)
       IN  IF r.tag = "Ok"
           THEN Bind(i, "parse_query", [locals[i] EXCEPT !.query = r.val], "read_schema")
           ELSE Fail(i, "parse_query", locals[i], r)
    /\ UNCHANGED <<config, input, inlineVars>>

ReadSchemaFile(i) ==
    /\ pc[i] = "read_schema"
    /\ LET schema_path == PathJoin(CARGO_MANIFEST_DIR, locals[i].schema_path)
           r == read_file(schema_path)
       IN  IF r.tag = "Ok"
           THEN Bind(i, "read_schema",
                     [locals[i] EXCEPT !.schema_path = schema_path,
                                       !.schema_string = r.val,
                                       !.opened = Append(@, schema_path)],
                     "parse_schema")
           ELSE Fail(i, "read_schema",
                     [locals[i] EXCEPT !.opened = Append(@, schema_path)], r)
    /\ UNCHANGED <<config, input, inlineVars>>

ParseSchema(i) ==
    /\ pc[i] = "parse_schema"
    /\ LET r == BuildSchema(Extension(locals[i].schema_path), locals[i].schema_string)
       IN  IF r.tag = "Ok"
           THEN Bind(i, "parse_schema", [locals[i] EXCEPT !.schema = r.val],
                     "response_for_query")
           ELSE Fail(i, "parse_schema", locals[i], r)
    /\ UNCHANGED <<config, input, inlineVars>>

\* Faulty variant of ResponseForQuery: an error of response_for_query is
\* replaced by an empty output
ResponseForQueryLenient(i) ==
    /\ pc[i] = "response_for_query"
    /\ LET r == response_for_query(locals[i].schema, locals[i].query)
       IN  Bind(i, "response_for_query",
                [locals[i] EXCEPT !.schema_output = IF r.tag = "Ok" THEN r.val ELSE <<>>],
                "emit")
    /\ UNCHANGED <<config, input, inlineVars>>

ResponseForQuery(i) ==
    /\ pc[i] = "response_for_query"
    /\ LET r == response_for_query(locals[i].schema, locals[i].query)
       IN  IF r.tag = "Ok"
           THEN Bind(i, "response_for_query",
                     [locals[i] EXCEPT !.schema_output = r.val], "emit")
           ELSE Fail(i, "response_for_query", locals[i], r)
    /\ UNCHANGED <<config, input, inlineVars>>

\* Faulty variant of Emit: QUERY is given the path of the query file
EmitQueryPath(i) ==
    /\ pc[i] = "emit"
    /\ result' = [result EXCEPT ![i] =
            Ok(quote(locals[i].module_name, input[i].ident,
                     locals[i].query_path, locals[i].schema_output))]
    /\ pc' = [pc EXCEPT ![i] = "returned"]
    /\ trace' = [trace EXCEPT ![i] = Append(@, "emit")]
    /\ UNCHANGED <<locals, payload, config, input, inlineVars>>

Emit(i) ==
    /\ pc[i] = "emit"
    /\ result' = [result EXCEPT ![i] =
            Ok(quote(locals[i].module_name, input[i].ident,
                     locals[i].query_string, locals[i].schema_output))]
    /\ pc' = [pc EXCEPT ![i] = "returned"]
    /\ trace' = [trace EXCEPT ![i] = Append(@, "emit")]
    /\ UNCHANGED <<locals, payload, config, input, inlineVars>>

\* Faulty variant of graphql_query_derive: an error ends the whole
\* expansion, every other invocation with it
graphql_query_derive_exit(i) ==
    /\ pc[i] = "returned"
    /\ pc' = IF result[i].tag = "Ok"
             THEN [pc EXCEPT ![i] = "expanded"]
             ELSE [j \in Ops |-> "aborted"]
    /\ UNCHANGED <<result, trace, locals, payload, config, input, inlineVars>>

\* graphql_query_derive: impl_gql_query(&ast).unwrap() panics on an error
\* and hands the tokens to the compiler otherwise
graphql_query_derive(i) ==
    /\ pc[i] = "returned"
    /\ pc' = [pc EXCEPT ![i] = IF result[i].tag = "Ok" THEN "expanded" ELSE "aborted"]
    /\ UNCHANGED <<result, trace, locals, payload, config, input, inlineVars>>

\* Client code calls the generated build_query
BuildQuery(i, v) ==
    /\ pc[i] = "expanded"
    /\ payload' = [payload EXCEPT ![i] = build_query(result[i].val, v)]
    /\ UNCHANGED <<pc, result, trace, locals, config, input, inlineVars>>

Variables == 0..MaxVariables

InlineIdle ==
    /\ library = NoFragments
    /\ stack = <<>>
    /\ visiting = {}
    /\ inlined = NoResult
    /\ spread = ""

InitOps(ops, inputs, configs) ==
    /\ config \in configs
    /\ input \in [ops -> inputs]
    /\ pc = [i \in ops |-> "start"]
    /\ locals = [i \in ops |-> NoLocals]
    /\ result = [i \in ops |-> NoResult]
    /\ trace = [i \in ops |-> <<>>]
    /\ payload = [i \in ops |-> NoPayload]

\* One derive invocation, any input, any configuration
Init == InitOps({1}, DeriveInputs, Configs) /\ InlineIdle

\* A batch of derive invocations expanding in any interleaving
InitBatch == InitOps(1..NumOps, BatchInputs, BatchConfigs) /\ InlineIdle

Next ==
    \/ \E i \in Ops : ExtractQueryPath(i)
    \/ \E i \in Ops : FindSchemaPath(i)
    \/ \E i \in Ops : ReadQueryFile(i)
    \/ \E i \in Ops : ParseQuery(i)
    \/ \E i \in Ops : ReadSchemaFile(i)
    \/ \E i \in Ops : ParseSchema(i)
    \/ \E i \in Ops : ResponseForQuery(i)
    \/ \E i \in Ops : Emit(i)
    \/ \E i \in Ops : graphql_query_derive(i)
    \/ \E i \in Ops, v \in Variables : BuildQuery(i, v)

Spec == Init /\ [][Next]_vars

SpecBatch == InitBatch /\ [][Next]_vars

-----------------------------------------------------------------------------
(* Fragment inlining, one call or return of the depth-first walk at a time *)

FragmentNames == {ToString(k) : k \in 1..NumFragments}

\* The names of a set as spreads, in ascending order of the names
RECURSIVE Spreads(_)
Spreads(names) ==
    IF names = {} THEN <<>>
    ELSE LET n == CHOOSE x \in names :
                    \A y \in names : \E k \in 1..NumFragments :
                        x = ToString(k) /\ \A j \in 1..(k - 1) : y # ToString(j)
         IN  <<FragmentSpread(n)>> \o Spreads(names \ {n})

\* Fragments on Character: the field name, then at most MaxSpreads spreads
FragmentBodies ==
    { <<Field("name", <<>>)>> \o Spreads(names) :
        names \in {S \in SUBSET FragmentNames : Cardinality(S) <= MaxSpreads} }

Libraries == [FragmentNames -> {Fragment("Character", body) : body \in FragmentBodies}]

\* A frame of the walk: the fragment being inlined (none for the selection
\* set that holds the top-level spread), its context type, the selections
\* still to visit and the selections inlined so far
Frame(name, on, todo, out) == [name |-> name, on |-> on, todo |-> todo, out |-> out]

Top == stack[Len(stack)]

Callers == SubSeq(stack, 1, Len(stack) - 1)

\* Replace the top frame
WithTop(frame) == Append(Callers, frame)

\* Why inline(spreadName, contextType, visiting) fails, "" when it does not
InlineError(spreadName, contextType) ==
    IF spreadName \notin DOMAIN library THEN "Undefined"
    ELSE IF spreadName \in visiting THEN "CycleDetected"
    ELSE IF ~TypeConditionFits(StarWars, library[spreadName].on, contextType)
    THEN "TypeConditionMismatch"
    ELSE ""

\* The walk reaches a spread whose fragment may be entered
InlineEnter ==
    /\ stack # <<>> /\ Top.todo # <<>>
    /\ Head(Top.todo).kind = "FragmentSpread"
    /\ LET n == Head(Top.todo).name
       IN  /\ InlineError(n, Top.on) = ""
           /\ stack' = Append(WithTop([Top EXCEPT !.todo = Tail(@)]),
                              Frame(n, library[n].on, library[n].sel, <<>>))
           /\ visiting' = visiting \cup {n}
    /\ UNCHANGED <<inlined, library, spread, pipelineVars>>

\* The walk reaches a spread that fails: the error ends the resolution
InlineFail ==
    /\ stack # <<>> /\ Top.todo # <<>>
    /\ Head(Top.todo).kind = "FragmentSpread"
    /\ LET n == Head(Top.todo).name
       IN  /\ InlineError(n, Top.on) # ""
           /\ inlined' = Err(Error("FragmentError", InlineError(n, Top.on), <<n>>))
    /\ stack' = <<>>
    /\ visiting' = {}
    /\ UNCHANGED <<library, spread, pipelineVars>>

\* A selection that is no spread stays as it is
InlineKeep ==
    /\ stack # <<>> /\ Top.todo # <<>>
    /\ Head(Top.todo).kind # "FragmentSpread"
    /\ stack' = WithTop([Top EXCEPT !.todo = Tail(@), !.out = Append(@, Head(Top.todo))])
    /\ UNCHANGED <<visiting, inlined, library, spread, pipelineVars>>

\* Faulty variant of InlineReturn: a fragment that is done stays in the
\* visiting set
InlineReturnKeepVisited ==
    /\ stack # <<>> /\ Top.todo = <<>>
    /\ IF Len(stack) = 1
       THEN /\ inlined' = Ok(Top.out)
            /\ stack' = <<>>
            /\ visiting' = {}
       ELSE /\ stack' = Append(SubSeq(stack, 1, Len(stack) - 2),
                        [stack[Len(stack) - 1] EXCEPT
                            !.out = Append(@, InlineFragment(Top.on, Top.out))])
            /\ UNCHANGED <<visiting, inlined>>
    /\ UNCHANGED <<library, spread, pipelineVars>>

\* A fragment is done: it leaves the visiting set and its selections go to
\* the caller; the last return ends the resolution
InlineReturn ==
    /\ stack # <<>> /\ Top.todo = <<>>
    /\ IF Len(stack) = 1
       THEN /\ inlined' = Ok(Top.out)
            /\ stack' = <<>>
            /\ visiting' = {}
       ELSE /\ stack' = Append(SubSeq(stack, 1, Len(stack) - 2),
                        [stack[Len(stack) - 1] EXCEPT
                            !.out = Append(@, InlineFragment(Top.on, Top.out))])
            /\ visiting' = visiting \ {Top.name}
            /\ UNCHANGED inlined
    /\ UNCHANGED <<library, spread, pipelineVars>>

\* A top-level resolution of the spread of the first fragment, over any library
InitInline ==
    /\ InitOps({}, DeriveInputs, {ConfigUnreadable})
    /\ library \in Libraries
    /\ spread = ToString(1)
    /\ stack = <<Frame("", "Character", <<FragmentSpread(spread)>>, <<>>)>>
    /\ visiting = {}
    /\ inlined = NoResult

NextInline ==
    \/ InlineEnter
    \/ InlineFail
    \/ InlineKeep
    \/ InlineReturn

\* The resolver runs to its end once called
SpecInline == InitInline /\ [][NextInline]_vars /\ WF_vars(NextInline)

-----------------------------------------------------------------------------
(* Properties of one derive invocation *)

Range(seq) == {seq[k] : k \in 1..Len(seq)}

\* Invocation i has executed the step
Did(i, step) == step \in Range(trace[i])

\* Invocation i is over: its tokens went to the compiler, or it panicked
Finished(i) == pc[i] \in {"expanded", "aborted"}

Failed(i) == result[i].tag \in {"Err", "Panic"}

\* The string values of the schema_path items of all graphql attributes
SchemaPathAttrs(ast) ==
    UNION { { ast.attrs[k].nested[n].lit.value :
                n \in { n \in 1..Len(ast.attrs[k].nested) :
                          /\ ast.attrs[k].nested[n].kind = "NameValue"
                          /\ ast.attrs[k].nested[n].ident = "schema_path"
                          /\ ast.attrs[k].nested[n].lit.kind = "Str" } } :
            k \in { k \in 1..Len(ast.attrs) :
                      ast.attrs[k].path = "graphql" /\ ast.attrs[k].meta = "List" } }

\* The schema path is resolved and not yet joined with the project root
SchemaPathResolved(i) == pc[i] \in {"read_query", "parse_query", "read_schema"}

\* C1: whenever the derive input carries a graphql attribute with a
\* string-valued schema_path item, find_schema_path succeeds and the
\* resolved schema path is that attribute value, whatever the config file
\* holds
AttributeOverridesConfig ==
    \A i \in Ops :
        (Did(i, "find_schema_path") /\ SchemaPathAttrs(input[i]) # {}) =>
            /\ ~(Failed(i) /\ trace[i][Len(trace[i])] = "find_schema_path")
            /\ SchemaPathResolved(i) => locals[i].schema_path \in SchemaPathAttrs(input[i])

\* C2: the steps run in the fixed order; a failure ends the run at the
\* earliest failing step with that step's error, no later step runs, and
\* tokens are produced only by a run in which every step succeeded
StopsAtFirstError ==
    \A i \in Ops :
        LET o == impl_gql_query(input[i], config)
        IN  /\ IsPrefix(trace[i], StepOrder)
            /\ result[i].tag # "None" =>
                    /\ result[i] = o.res
                    /\ trace[i] = SubSeq(StepOrder, 1, Len(trace[i]))
                    /\ trace[i][Len(trace[i])] = o.step
                    /\ pc[i] \in {"returned", "expanded", "aborted"}
            /\ Failed(i) => pc[i] # "expanded" /\ ~Did(i, "emit")
            /\ (pc[i] = "expanded" \/ payload[i] # NoPayload) =>
                    result[i].tag = "Ok" /\ trace[i] = StepOrder

\* A run that failed in the middle, at the parse of the query
StoppedAtParseQuery ==
    \E i \in Ops :
        /\ pc[i] = "aborted"
        /\ result[i].tag = "Err"
        /\ trace[i] = SubSeq(StepOrder, 1, 4)

Recognized == {"graphql", "gql", "json"}

\* C3: a schema path whose extension is not recognized makes the schema
\* step return the error SchemaError UnsupportedFormat, like every other
\* fatal error, and no output is produced
UnsupportedFormatIsReturned ==
    \A i \in Ops :
        (Did(i, "parse_schema") /\ Extension(locals[i].schema_path) \notin Recognized) =>
            /\ result[i].tag = "Err"
            /\ result[i].err.type = "SchemaError"
            /\ result[i].err.msg = "UnsupportedFormat"
            /\ pc[i] # "expanded"

\* Neither source yields a schema path for invocation i
NoSchemaPath(i) ==
    /\ extract_attr(input[i], "schema_path").tag = "Err"
    /\ \/ config.tag = "Err"
       \/ config.tag = "Ok" /\ ~config.val.present

\* C4: when neither the attribute nor the config file yields a schema path,
\* find_schema_path returns one and the same error, which names the
\* operation and points at the attribute and at .graphqlconfig, and no
\* output is produced
UnresolvedSchemaPathError ==
    \A i \in Ops :
        (Did(i, "find_schema_path") /\ NoSchemaPath(i)) =>
            /\ result[i] = Err(Error("ConfigError",
                    "Could not find a schema for the query either from the attribute on the query or in a .graphqlconfig file at the project root.",
                    <<input[i].ident>>))
            /\ trace[i] = SubSeq(StepOrder, 1, 2)
            /\ pc[i] \in {"returned", "aborted"}
            /\ payload[i] = NoPayload

\* The config file is readable but has no schemaPath, and the attribute's
\* schema_path is no string
UnresolvedWithoutSchemaPath ==
    \E i \in Ops :
        /\ pc[i] = "aborted"
        /\ Did(i, "find_schema_path")
        /\ NoSchemaPath(i)
        /\ config.tag = "Ok"
        /\ \E k \in 1..Len(input[i].attrs) :
                \E n \in 1..Len(input[i].attrs[k].nested) :
                    input[i].attrs[k].nested[n].ident = "schema_path"

\* The text of the query file the invocation opened
QueryFileText(i) == FileContent(Canonical(locals[i].opened[1]))

\* C5: QUERY is the text read from the query file, and build_query(v) pairs
\* v, unchanged, with that text
QueryStoredVerbatim ==
    /\ [](\A i \in Ops :
            /\ result[i].tag = "Ok" =>
                    /\ result[i].val.module.QUERY = QueryFileText(i)
                    /\ result[i].val.module.QUERY = locals[i].query_string
            /\ payload[i] # NoPayload => payload[i].query = QueryFileText(i))
    /\ [][\A i \in Ops : \A v \in Variables :
            BuildQuery(i, v) =>
                payload'[i] = [variables |-> v, query |-> QueryFileText(i)]]_vars

\* build_query has paired a value with the text of a query file
PayloadBuilt ==
    \E i \in Ops :
        /\ payload[i] # NoPayload
        /\ payload[i].variables = MaxVariables
        /\ payload[i].query = "query hero name"

RECURSIVE SelectsUnknownField(_, _, _)

\* The selections, taken against the type, name a field the type lacks
SelectsUnknownField(schema, type, sels) ==
    \E k \in 1..Len(sels) :
        LET s == sels[k]
        IN  \/ /\ s.kind = "Field"
               /\ s.name # "__typename"
               /\ s.name \notin DOMAIN schema[type].fields
            \/ /\ s.kind = "Field"
               /\ s.name \in DOMAIN schema[type].fields
               /\ SelectsUnknownField(schema, schema[type].fields[s.name], s.sel)
            \/ /\ s.kind = "InlineFragment"
               /\ s.on \in DOMAIN schema
               /\ SelectsUnknownField(schema, s.on, s.sel)

\* The operation of invocation i selects a field its schema lacks
UnknownFieldSelected(i) ==
    SelectsUnknownField(locals[i].schema, "Query", locals[i].query.selectionSet)

GivenSchemaPath(i) == find_schema_path(input[i], config).val

\* C10: every file opened lies under the project root at the relative path
\* given for it, and the query path and the schema path are resolved alike
PathsRelativeToRoot ==
    \A i \in Ops :
        /\ Did(i, "read_query") =>
              /\ UnderDir(CARGO_MANIFEST_DIR, locals[i].opened[1])
              /\ Canonical(locals[i].opened[1]) =
                    Canonical(FormatPath(CARGO_MANIFEST_DIR,
                                         extract_attr(input[i], "query_path").val))
        /\ Did(i, "read_schema") =>
              /\ UnderDir(CARGO_MANIFEST_DIR, locals[i].opened[2])
              /\ Canonical(locals[i].opened[2]) =
                    Canonical(FormatPath(CARGO_MANIFEST_DIR, GivenSchemaPath(i)))

-----------------------------------------------------------------------------
(* Properties of a batch of derive invocations *)

\* Some step of invocation i
StepOf(i) ==
    \/ ExtractQueryPath(i)
    \/ FindSchemaPath(i)
    \/ ReadQueryFile(i)
    \/ ParseQuery(i)
    \/ ReadSchemaFile(i)
    \/ ParseSchema(i)
    \/ ResponseForQuery(i)
    \/ Emit(i)
    \/ graphql_query_derive(i)

StateOf(i) == <<pc[i], locals[i], result[i], trace[i], payload[i], input[i]>>

\* C7: the outcome of every invocation of a batch is the outcome it has
\* alone, whatever happened to the others, and a step of one invocation,
\* its abort included, leaves every other invocation as it is
FailuresIsolated ==
    /\ [](\A i \in Ops :
            LET o == impl_gql_query(input[i], config)
            IN  Finished(i) =>
                    /\ result[i].tag = o.res.tag
                    /\ result[i] = o.res
                    /\ pc[i] = IF o.res.tag = "Ok" THEN "expanded" ELSE "aborted")
    /\ [][\A i \in Ops :
            StepOf(i) => (config' = config /\ \A j \in Ops \ {i} : StateOf(j)' = StateOf(j))]_vars

\* One invocation aborted on an error and another produced its tokens
OneAbortedOneExpanded ==
    \E i, j \in Ops :
        /\ pc[i] = "aborted" /\ result[i].tag = "Err"
        /\ pc[j] = "expanded"

-----------------------------------------------------------------------------
(* Properties of fragment inlining *)

\* The fragments spread directly inside fragment n
SpreadsOf(n) ==
    {library[n].sel[k].name :
        k \in {k \in 1..Len(library[n].sel) : library[n].sel[k].kind = "FragmentSpread"}}

\* The fragments reached from a set of fragments by one or more spreads
RECURSIVE ReachedFrom(_, _)
ReachedFrom(names, seen) ==
    LET next == UNION {SpreadsOf(n) : n \in names} \ seen
    IN  IF next = {} THEN seen ELSE ReachedFrom(next, seen \cup next)

Reaches(n) == ReachedFrom({n}, {})

\* The fragment transitively spreads itself
SpreadsItself(n) == n \in Reaches(n)

\* The spread, or a fragment it reaches, transitively spreads itself
CycleReachable == \E n \in {spread} \cup Reaches(spread) : SpreadsItself(n)

InlineDone == inlined.tag # "None"

\* The names of the fragments on the stack
Entered == {stack[k].name : k \in 2..Len(stack)}

\* C9: inlining always ends; its recursion is never deeper than the number
\* of fragments, the visiting set holds exactly the fragments being inlined,
\* each once; the spread of a fragment that transitively spreads itself ends
\* in FragmentError CycleDetected, and a spread over fragments none of which
\* spreads itself ends without it
InliningTerminates ==
    /\ <>InlineDone
    /\ [](/\ Len(stack) <= NumFragments + 1
          /\ visiting = Entered
          /\ Cardinality(Entered) = Max({Len(stack) - 1, 0})
          /\ InlineDone =>
                /\ stack = <<>>
                /\ SpreadsItself(spread) =>
                        inlined.tag = "Err" /\ inlined.err.msg = "CycleDetected"
                /\ CycleReachable <=>
                        (inlined.tag = "Err" /\ inlined.err.msg = "CycleDetected")
                /\ inlined = InlineAll(StarWars, library, <<FragmentSpread(spread)>>,
                                       "Character", {}))

\* A cycle through a second fragment was detected on the way back to the
\* spread fragment
LongCycleDetected ==
    /\ inlined.tag = "Err"
    /\ inlined.err.msg = "CycleDetected"
    /\ inlined.err.about = <<spread>>
    /\ spread \notin SpreadsOf(spread)

=============================================================================
